---- MODULE Spec2Model ----
(***************************************************************************)
(* A model of tokio-timerfd's two timing primitives:                       *)
(*   Delay    (src/src/delay.rs)    a future that completes at a deadline  *)
(*   Interval (src/src/interval.rs) a stream that ticks periodically       *)
(* Each owns one TimerFd.  The TimerFd wrapper (crate::TimerFd) and the    *)
(* executor that drives poll are not part of the two source files; they    *)
(* are modelled from their contract (arm one-shot / periodic, a readiness  *)
(* check that acknowledges the firing, wake of the registered task).       *)
(*                                                                         *)
(* One object is constructed per behaviour: Init picks Delay::new,         *)
(* Interval::new or Interval::new_interval.  Time is a natural-number      *)
(* monotonic clock that starts at 0 when the object is constructed.        *)
(***************************************************************************)
EXTENDS Integers, Naturals, Sequences, FiniteSets, TLC

\* ------------------------------------------------------------------ bounds
\* The clock runs from 0 to MaxTime; deadlines and anchors are drawn from it.
MaxTime == 5
\* Interval periods are drawn from 0..MaxPeriod.
MaxPeriod == 2

Instants  == 0..MaxTime
Durations == 0..MaxPeriod

VARIABLES
    now,          \* Instant::now(): the monotonic clock
    kind,         \* which struct was constructed: "Delay" or "Interval"
    deadline,     \* Delay.deadline
    at,           \* Interval.at
    duration,     \* Interval.duration
    initialized,  \* Delay.initialized / Interval.initialized
    task,         \* Delay.task : Option<task::Task>
    timerfd,      \* the owned TimerFd (Delay.timerfd / Interval.timerfd)
    notified,     \* the caller's task has been woken and is due to poll
    dropped,      \* the object has been dropped
    result,       \* what the most recent poll returned ("None" before any)
    elapsed,      \* what the most recent is_elapsed() returned
    wasReset,     \* reset has been called at least once
    armedAt,      \* the instant of the most recent set_state
    ticks,        \* number of ticks an Interval's timer has reported
    lastTick,     \* the instant of the most recent of those ticks
    fired,        \* a poll of the Delay has returned Ready
    resetAfterFired, \* reset has been called after such a poll
    given,        \* the deadline given to the most recent of new / reset
    got           \* what the most recent deadline() returned

vars == <<now, kind, deadline, at, duration, initialized, task, timerfd,
          notified, dropped, result, elapsed, wasReset, armedAt, ticks,
          lastTick, fired, resetAfterFired, given, got>>

\* ------------------------------------------------------- the timer resource
\* TimerFd::new(ClockId::Monotonic): a disarmed timer nobody waits on.
\*   state      "Disarmed" | "Oneshot" | "Periodic"
\*   expiry     the instant of the next expiration (meaningful when armed)
\*   interval   the cadence of a periodic timer
\*   expired    an expiration has occurred and has not been read yet
\*   registered the reactor holds the caller's task, to wake it on readiness
TimerFd_new ==
    [state |-> "Disarmed", expiry |-> 0, interval |-> 0,
     expired |-> FALSE, registered |-> FALSE]

\* TimerState::Oneshot(d) and TimerState::Periodic{current, interval}.
Oneshot(d) == [state |-> "Oneshot", current |-> d, interval |-> 0]
Periodic(current, interval) ==
    [state |-> "Periodic", current |-> current, interval |-> interval]

\* TimerFd::set_state(state, SetTimeFlags::Default): arms the timer relative
\* to now, replacing the previous arming and discarding its unread
\* expiration.  A zero first expiration disarms the timer (timerfd_settime).
set_state(tfd, st) ==
    [tfd EXCEPT !.state    = IF st.current = 0 THEN "Disarmed" ELSE st.state,
                !.expiry   = now + st.current,
                !.interval = st.interval,
                !.expired  = FALSE]

\* The first expiration instant of a periodic timer strictly after t.
RECURSIVE Forward(_, _, _)
Forward(expiry, interval, t) ==
    IF expiry > t THEN expiry ELSE Forward(expiry + interval, interval, t)

\* The kernel timer fires: the expiration becomes readable and the task the
\* reactor holds for it is woken.  A one-shot is then disarmed; a periodic
\* timer is restarted when the expiration is read.
Expire ==
    /\ timerfd.state # "Disarmed"
    /\ ~timerfd.expired
    /\ now >= timerfd.expiry
    /\ timerfd' =
         [timerfd EXCEPT
            !.expired    = TRUE,
            !.registered = FALSE,
            !.state      = IF timerfd.state = "Oneshot" THEN "Disarmed"
                           ELSE "Periodic"]
    /\ notified' = (notified \/ timerfd.registered)
    /\ UNCHANGED <<now, kind, deadline, at, duration, initialized, task,
                   dropped, result, elapsed, wasReset, armedAt, ticks,
                   lastTick, fired, resetAfterFired, given, got>>

\* TimerFd::poll_read() on timer tfd: the outcome and the timer afterwards.
\* fault = TRUE is the readiness check failing with an I/O error.  A ready
\* check reads the timer: every expiration up to now is acknowledged as one
\* event and a periodic timer moves on to its next expiration after now.  A
\* check that is not ready leaves the caller's task with the reactor.
poll_read_outcome(tfd, fault) ==
    IF fault THEN "Err"
    ELSE IF tfd.expired THEN "Ready" ELSE "NotReady"

poll_read_timer(tfd, fault) ==
    IF fault THEN tfd
    ELSE IF tfd.expired
           THEN [tfd EXCEPT
                   !.expired = FALSE,
                   !.expiry  = IF tfd.state = "Periodic"
                               THEN Forward(tfd.expiry, tfd.interval, now)
                               ELSE tfd.expiry]
    ELSE [tfd EXCEPT !.registered = TRUE]

\* The monotonic clock advances.
Advance ==
    /\ now < MaxTime
    /\ now' = now + 1
    /\ UNCHANGED <<kind, deadline, at, duration, initialized, task, timerfd,
                   notified, dropped, result, elapsed, wasReset, armedAt,
                   ticks, lastTick, fired, resetAfterFired, given, got>>

\* -------------------------------------------------------------------- Delay
\* Delay::new(deadline)
Delay_new(d) ==
    /\ kind = "Delay"
    /\ timerfd = TimerFd_new
    /\ deadline = d
    /\ initialized = FALSE
    /\ task = "None"
    /\ given = d
    /\ at = 0 /\ duration = 0

\* Delay::is_elapsed(): the value returned.
is_elapsed == deadline > now

IsElapsed ==
    /\ kind = "Delay" /\ ~dropped
    /\ elapsed' = is_elapsed
    /\ UNCHANGED <<now, kind, deadline, at, duration, initialized, task,
                   timerfd, notified, dropped, result, wasReset, armedAt,
                   ticks, lastTick, fired, resetAfterFired, given, got>>

\* Delay::deadline(): the value returned.
Delay_deadline == deadline

Deadline ==
    /\ kind = "Delay" /\ ~dropped
    /\ got' = Delay_deadline
    /\ UNCHANGED <<now, kind, deadline, at, duration, initialized, task,
                   timerfd, notified, dropped, result, elapsed, wasReset,
                   armedAt, ticks, lastTick, fired, resetAfterFired, given>>

\* Delay::reset(deadline), lines 43-45:
\* `if let Some(task) = &self.task { task.notify() }`.
reset_notifies == task # "None"

\* A reset that stores the deadline and leaves the old arming in force.
reset_keeps_initialized == initialized

\* Delay::reset, line 42: the value reset leaves in `initialized`.
reset_initialized == FALSE

\* A reset that arms the timer for the new deadline itself.
reset_eager(d) ==
    /\ kind = "Delay" /\ ~dropped
    /\ deadline' = d
    /\ initialized' = (d > now)
    /\ timerfd' = IF d > now THEN set_state(timerfd, Oneshot(d - now))
                  ELSE timerfd
    /\ armedAt' = IF d > now THEN now ELSE armedAt
    /\ notified' = (notified \/ reset_notifies)
    /\ wasReset' = TRUE
    /\ resetAfterFired' = (resetAfterFired \/ fired)
    /\ given' = d
    /\ UNCHANGED <<now, kind, at, duration, task, dropped, result, elapsed,
                   ticks, lastTick, fired, got>>

reset(d) ==
    /\ kind = "Delay" /\ ~dropped
    /\ deadline' = d
    /\ initialized' = reset_initialized
    /\ notified' = (notified \/ reset_notifies)
    /\ wasReset' = TRUE
    /\ resetAfterFired' = (resetAfterFired \/ fired)
    /\ given' = d
    /\ UNCHANGED <<now, kind, at, duration, task, timerfd, dropped, result,
                   elapsed, armedAt, ticks, lastTick, fired, got>>

\* The comparison of line 56 turned around: a future deadline completes at
\* once and a past one is armed.
DelayPending_inverted == deadline <= now

\* The comparison of line 56 made inclusive: deadline = now is armed.
DelayPending_inclusive == deadline >= now

\* A try_ready! that turns the error into "not ready".
try_ready_swallows(got_) ==
    IF got_ = "Err" THEN "NotReady" ELSE got_

\* try_ready!(self.timerfd.poll_read()), delay.rs line 65 and interval.rs
\* line 57: NotReady and Err are returned to the caller as they are; on
\* Ready the poll goes on to its own Ready.
try_ready(got_) == got_

\* Delay::poll, line 56: the deadline is still ahead.
DelayPending == deadline > now

\* The deadline itself passed as the duration.
DelayDuration_absolute == deadline

\* Delay::poll, line 57: the one-shot's duration.
DelayDuration == deadline - now

\* Delay::poll().  The task runs, so its pending notification is consumed;
\* `task` is not assigned.
DelayPoll(fault) ==
    /\ kind = "Delay" /\ ~dropped
    /\ IF ~initialized /\ ~DelayPending
         THEN /\ result' = "Ready"
              /\ UNCHANGED <<initialized, armedAt, timerfd>>
         ELSE LET tfd == IF ~initialized
                           THEN set_state(timerfd, Oneshot(DelayDuration))
                           ELSE timerfd
              IN  /\ initialized' = TRUE
                  /\ armedAt' = IF ~initialized THEN now ELSE armedAt
                  /\ timerfd' = poll_read_timer(tfd, fault)
                  /\ result' = try_ready(poll_read_outcome(tfd, fault))
    /\ notified' = FALSE
    /\ fired' = (fired \/ result' = "Ready")
    /\ UNCHANGED <<now, kind, deadline, at, duration, task, dropped, elapsed,
                   wasReset, ticks, lastTick, resetAfterFired, given, got>>

\* ----------------------------------------------------------------- Interval
\* Interval::new(at, duration)
Interval_new(a, d) ==
    /\ kind = "Interval"
    /\ timerfd = TimerFd_new
    /\ at = a
    /\ duration = d
    /\ initialized = FALSE
    /\ deadline = 0 /\ task = "None" /\ given = 0

\* Interval::new_interval(duration)
new_interval(d) == Interval_new(now + d, d)

\* The anchor is ignored: the first expiration is one period after the first
\* poll.
first_duration_period == duration

\* A past anchor fires at the next clock step instead of after one period.
first_duration_asap ==
    IF at > now THEN at - now ELSE 1

\* The else branch of lines 37-41 and the zero check of lines 42-44 left out.
first_duration_nocollapse ==
    IF at > now THEN at - now ELSE 0

\* Interval::poll, lines 37-44: the first expiration.
first_duration ==
    LET first == IF at > now THEN at - now ELSE duration
    IN  IF first = 0 THEN duration ELSE first

\* The zero-period special case left out.
ZeroPeriod_omitted == FALSE

\* Interval::poll, line 45: the zero-period special case.
ZeroPeriod == duration = 0

\* The assignment of line 55 left out.
Interval_initialized_unset == initialized

\* Interval::poll, line 55: `self.initialized = true`.
Interval_initialized == TRUE

\* Interval::poll().  "ReadySome" is Async::Ready(Some(())).
IntervalPoll(fault) ==
    /\ kind = "Interval" /\ ~dropped
    /\ IF ~initialized /\ ZeroPeriod
         THEN /\ result' = "ReadySome"
              /\ UNCHANGED <<initialized, armedAt, timerfd, ticks, lastTick>>
         ELSE LET tfd == IF ~initialized
                           THEN set_state(timerfd,
                                          Periodic(first_duration, duration))
                           ELSE timerfd
                  read == try_ready(poll_read_outcome(tfd, fault))
              IN  /\ initialized' = Interval_initialized
                  /\ armedAt' = IF ~initialized THEN now ELSE armedAt
                  /\ timerfd' = poll_read_timer(tfd, fault)
                  /\ result' = IF read = "Ready" THEN "ReadySome" ELSE read
                  /\ ticks' = IF read = "Ready" THEN ticks + 1 ELSE ticks
                  /\ lastTick' = IF read = "Ready" THEN now ELSE lastTick
    /\ notified' = FALSE
    /\ UNCHANGED <<now, kind, deadline, at, duration, task, dropped, elapsed,
                   wasReset, fired, resetAfterFired, given, got>>

\* --------------------------------------------------------------------- drop
\* Dropping the TimerFd closes the descriptor: the arming, its unread
\* expiration and the reactor's registration go with it.
TimerFd_drop(tfd) == TimerFd_new

\* The object is forgotten rather than dropped: its timer stays open.
Drop_leaks_timer ==
    /\ ~dropped
    /\ dropped' = TRUE
    /\ UNCHANGED <<now, kind, deadline, at, duration, initialized, task,
                   timerfd, notified, result, elapsed, wasReset, armedAt,
                   ticks, lastTick, fired, resetAfterFired, given, got>>

\* The owner drops the Delay or the Interval; its fields are dropped with it.
Drop ==
    /\ ~dropped
    /\ dropped' = TRUE
    /\ timerfd' = TimerFd_drop(timerfd)
    /\ UNCHANGED <<now, kind, deadline, at, duration, initialized, task,
                   notified, result, elapsed, wasReset, armedAt, ticks,
                   lastTick, fired, resetAfterFired, given, got>>

\* ------------------------------------------------------------ specification
Init ==
    /\ now = 0
    /\ kind \in {"Delay", "Interval"}
    /\ \/ \E d \in Instants : Delay_new(d)
       \/ \E a \in Instants, d \in Durations : Interval_new(a, d)
       \/ \E d \in Durations : new_interval(d)
    /\ notified = TRUE
    /\ dropped = FALSE
    /\ result = "None"
    /\ elapsed = FALSE
    /\ wasReset = FALSE
    /\ armedAt = 0
    /\ ticks = 0
    /\ lastTick = 0
    /\ fired = FALSE
    /\ resetAfterFired = FALSE
    /\ got = 0

Next ==
    \/ Advance
    \/ Expire
    \/ \E fault \in BOOLEAN : DelayPoll(fault)
    \/ \E d \in Instants : reset(d)
    \/ IsElapsed
    \/ Deadline
    \/ \E fault \in BOOLEAN : IntervalPoll(fault)
    \/ Drop

Spec == Init /\ [][Next]_vars

\* The executor polls a task that has been woken, the clock advances and an
\* armed timer whose expiry has been reached fires.  The consumer of a stream
\* that has just been given an item has not been suspended: it asks for the
\* next one.
FairSpec ==
    /\ Spec
    /\ WF_vars(Advance)
    /\ WF_vars(Expire)
    /\ WF_vars(notified /\ \E fault \in BOOLEAN : DelayPoll(fault))
    /\ WF_vars((notified \/ result = "ReadySome")
                  /\ \E fault \in BOOLEAN : IntervalPoll(fault))

\* =================================================================== claims
AnyDelayPoll    == \E fault \in BOOLEAN : DelayPoll(fault)
AnyIntervalPoll == \E fault \in BOOLEAN : IntervalPoll(fault)
AnyReset        == \E d \in Instants : reset(d)

\* C1: a Delay created with a deadline strictly after its construction (at
\* time 0) and never reset has not had a poll return Ready while the clock is
\* still before the deadline.
C1_NoCompletionBeforeDeadline ==
    (kind = "Delay" /\ ~wasReset /\ deadline > 0 /\ result = "Ready")
        => now >= deadline

\* C1 witness: such a Delay was armed and a poll at or after the deadline
\* returned Ready off the timer.
C1_Witness ==
    /\ kind = "Delay" /\ ~wasReset /\ deadline > 0
    /\ initialized /\ result = "Ready" /\ now >= deadline

\* C2: a poll of a Delay performed at or after its deadline returns Ready when
\* the timer was not armed for that deadline (the short-circuit) or when the
\* one-shot armed for it has expired and the readiness check succeeds; and a
\* newly created Delay that is not reset (nor dropped, and whose readiness
\* check does not fail) eventually has a poll return Ready, given that the
\* clock advances, the timer fires and a woken caller polls.
C2_CompletesAtDeadline ==
    /\ [][\A fault \in BOOLEAN :
            (/\ DelayPoll(fault)
             /\ now >= deadline
             /\ ~fault
             /\ (~initialized \/ timerfd.expired))
            => result' = "Ready"]_vars
    /\ (kind = "Delay" /\ result = "None")
          ~> (result = "Ready" \/ result = "Err" \/ wasReset \/ dropped)

\* C2 witness: a Delay armed for a future deadline completed off its timer
\* after the caller had been suspended and woken.
C2_Witness ==
    /\ kind = "Delay" /\ ~wasReset /\ ~dropped
    /\ initialized /\ armedAt < deadline /\ now >= deadline
    /\ result = "Ready" /\ timerfd.state = "Disarmed" /\ ~timerfd.expired

\* C3: the first poll of a Delay whose stored deadline is not after now
\* returns Ready, leaves the timer as it was created (never armed) and leaves
\* initialized false.
C3_PastDeadlineShortCircuit ==
    [][\A fault \in BOOLEAN :
         (DelayPoll(fault) /\ result = "None" /\ deadline <= now)
         => (/\ result' = "Ready"
             /\ timerfd' = TimerFd_new
             /\ initialized' = FALSE)]_vars

\* C3 witness: a Delay whose deadline equals now completed without arming.
C3_Witness ==
    /\ kind = "Delay" /\ ~wasReset /\ ~dropped
    /\ deadline = now /\ result = "Ready"
    /\ ~initialized /\ timerfd = TimerFd_new

\* C4: the poll that follows a reset to a deadline D2 after now arms the timer
\* as a one-shot that expires at D2 (duration D2 - now), discarding the old
\* arming and its expiration, and marks the Delay initialized; and a poll
\* returns Ready only once the clock has reached the current deadline.
C4_ResetRearms ==
    /\ [][\A fault \in BOOLEAN :
            (DelayPoll(fault) /\ wasReset /\ ~initialized /\ deadline > now)
            => (/\ initialized'
                /\ armedAt' = now
                /\ timerfd'.state = "Oneshot"
                /\ timerfd'.expiry = now + (deadline - now)
                /\ ~timerfd'.expired
                /\ result' # "Ready")]_vars
    /\ [][(AnyDelayPoll /\ result' = "Ready") => now >= deadline]_vars

\* C4 witness: a Delay armed for D1, reset to a later D2 and polled again is
\* armed for D2 and still pending after D1 has passed.
C4_Witness ==
    /\ kind = "Delay" /\ wasReset /\ initialized
    /\ timerfd.state = "Oneshot" /\ timerfd.expiry = deadline
    /\ armedAt > 0 /\ now > armedAt /\ now < deadline
    /\ result = "NotReady"

\* C5: reset called while the caller is suspended on the Delay (its last poll
\* returned NotReady and it has not been woken since) wakes the caller.
C5_ResetWakesSuspended ==
    [][(AnyReset /\ result = "NotReady" /\ ~notified) => notified']_vars

\* C6: is_elapsed returns true when the stored deadline is behind now and
\* false when it is still ahead.
C6_ElapsedQuery ==
    [][IsElapsed => (/\ deadline < now => elapsed'
                     /\ deadline > now => ~elapsed')]_vars

\* C7: once a Delay has been dropped, no poll result is produced, its timer
\* does not fire and the caller is not woken, whatever the clock does.
C7_DroppedDelayIsSilent ==
    [][(kind = "Delay" /\ dropped)
         => (/\ ~Expire
             /\ result' = result
             /\ (notified' => notified)
             /\ timerfd' = TimerFd_new)]_vars

\* C7 witness: a Delay dropped while armed and suspended, with the clock past
\* its deadline and the caller still not woken.
C7_Witness ==
    /\ kind = "Delay" /\ dropped /\ initialized
    /\ result = "NotReady" /\ ~notified
    /\ now > deadline

\* C8: an Interval with period 0 never arms its timer, keeps initialized
\* false, and every poll of it returns a tick.
C8_ZeroPeriodAlwaysReady ==
    (kind = "Interval" /\ duration = 0)
        => (/\ ~initialized
            /\ timerfd = TimerFd_new
            /\ result \in {"None", "ReadySome"})

\* C8 witness: a zero-period Interval with a future anchor has been polled.
C8_Witness ==
    /\ kind = "Interval" /\ duration = 0 /\ at > now
    /\ result = "ReadySome"

\* C9 as stated: for an Interval with anchor = construction time and period
\* P > 0, a tick is reported no earlier than P after the previous tick (after
\* construction, for the first tick).
C9_TicksSpacedByPeriod ==
    [][(/\ AnyIntervalPoll
        /\ at = 0 /\ duration > 0
        /\ result' = "ReadySome")
       => now >= (IF ticks = 0 THEN 0 ELSE lastTick) + duration]_vars

\* C9 as amended: for such an Interval the k-th reported tick comes no
\* earlier than k periods after the first poll, which armed the timer; so the
\* first tick is no earlier than P after construction.
C9_TicksPacedByPeriod ==
    (kind = "Interval" /\ at = 0 /\ duration > 0)
        => (/\ now >= armedAt + ticks * duration
            /\ ticks > 0 => lastTick >= armedAt + ticks * duration)

\* C9 witness: such an Interval with a period above the clock's step has
\* reported two ticks, the latest exactly when the bound allows it.
C9_Witness ==
    /\ kind = "Interval" /\ at = 0 /\ duration > 1
    /\ ticks >= 2 /\ result = "ReadySome"
    /\ lastTick = armedAt + ticks * duration

\* C10: the first poll of an Interval with period P > 0 arms the timer
\* periodically with cadence P and first expiration anchor - now when the
\* anchor is after now, and P otherwise.
C10_FirstPollArmsPeriodic ==
    [][\A fault \in BOOLEAN :
         (IntervalPoll(fault) /\ ~initialized /\ duration > 0)
         => (/\ initialized'
             /\ timerfd'.state = "Periodic"
             /\ timerfd'.interval = duration
             /\ timerfd'.expiry =
                  now + (IF at > now THEN at - now ELSE duration)
             /\ ~timerfd'.expired)]_vars

\* C10 witness: an Interval whose anchor had passed at its first poll is
\* armed one full period after that poll.
C10_Witness ==
    /\ kind = "Interval" /\ duration > 1 /\ initialized
    /\ at < armedAt /\ now = armedAt
    /\ timerfd.state = "Periodic" /\ timerfd.expiry = armedAt + duration

\* C11: no poll of an Interval returns end-of-stream (a Ready result is
\* always Ready(Some)); and an Interval with period > 0 that has been armed
\* and whose next expiration lies within the clock's range has a later poll
\* return a tick, again and again, unless it is dropped or its readiness
\* check fails, given that the clock advances, the timer fires and the caller
\* polls when woken or after an item.
C11_IntervalNeverEnds ==
    /\ [](kind = "Interval"
            => result \in {"None", "ReadySome", "NotReady", "Err"})
    /\ (/\ kind = "Interval" /\ duration > 0 /\ initialized
        /\ timerfd.expiry <= MaxTime
        /\ result # "ReadySome")
         ~> (result = "ReadySome" \/ dropped \/ result = "Err")

\* C11 witness: an Interval with period > 0 has reported three ticks and is
\* waiting for the next.
C11_Witness ==
    /\ kind = "Interval" /\ duration > 0 /\ ~dropped
    /\ ticks >= 3 /\ result = "NotReady" /\ timerfd.registered

\* C12 as stated: once a poll of a Delay has returned Ready, no later poll
\* arms the timer or returns Ready again, whatever resets come in between.
C12_FiresExactlyOnce ==
    [][\A fault \in BOOLEAN :
         (fired /\ DelayPoll(fault))
         => (/\ result' # "Ready"
             /\ armedAt' = armedAt
             /\ timerfd'.state \in {timerfd.state, "Disarmed"}
             /\ timerfd'.expiry = timerfd.expiry)]_vars

\* C12 as amended: once a poll of a Delay has returned Ready and as long as
\* reset is not called after that, no later poll arms the timer; and when the
\* completion came off the timer, no later poll returns Ready again.
C12_FiresOnceUntilReset ==
    [][\A fault \in BOOLEAN :
         (fired /\ ~resetAfterFired /\ DelayPoll(fault))
         => (/\ armedAt' = armedAt
             /\ timerfd'.state = timerfd.state
             /\ timerfd'.expiry = timerfd.expiry
             /\ initialized' = initialized
             /\ initialized => result' # "Ready")]_vars

\* C12 witness: a Delay that completed off its timer has been polled again
\* and reported not-ready.
C12_Witness ==
    /\ kind = "Delay" /\ fired /\ ~resetAfterFired /\ initialized
    /\ result = "NotReady" /\ timerfd.state = "Disarmed"

\* C13 as stated: no poll of an Interval returns a tick before the anchor,
\* for every period.
C13_NoTickBeforeAnchorAnyPeriod ==
    [][(AnyIntervalPoll /\ result' = "ReadySome") => now >= at]_vars

\* C13 as amended: no poll of an Interval with period > 0 returns a tick
\* before the anchor.
C13_NoTickBeforeAnchor ==
    [][(AnyIntervalPoll /\ duration > 0 /\ result' = "ReadySome")
         => now >= at]_vars

\* C13 witness: an Interval with period > 0 whose anchor was ahead at its
\* first poll reported its first tick at the anchor.
C13_Witness ==
    /\ kind = "Interval" /\ duration > 0 /\ armedAt < at
    /\ ticks = 1 /\ lastTick = at /\ result = "ReadySome"

\* The timer's arming changes in this step other than by its own firing and
\* re-firing: it is armed where it was not, or armed differently.
TimerRearmed ==
    /\ timerfd'.state # "Disarmed"
    /\ \/ timerfd'.state # timerfd.state
       \/ timerfd'.interval # timerfd.interval
       \/ (timerfd'.expiry # timerfd.expiry /\ ~timerfd.expired)

\* C14: a poll of a Delay or an Interval whose readiness check fails returns
\* Err in that call, leaves the timer as it was when the check was made (no
\* re-arming of an initialized object, no registration, no acknowledgement)
\* and reports neither a completion nor a tick; a poll whose check does not
\* fail, or that makes no check, does not return Err.
C14_ReadinessErrorSurfaced ==
    [][\A fault \in BOOLEAN :
         (\/ DelayPoll(fault) /\ (initialized \/ deadline > now)
          \/ IntervalPoll(fault) /\ (initialized \/ duration # 0))
         => (/\ fault => (/\ result' = "Err"
                          /\ initialized => (/\ timerfd' = timerfd
                                             /\ armedAt' = armedAt)
                          /\ timerfd'.registered = timerfd.registered
                          /\ ~initialized => ~timerfd'.expired
                          /\ fired' = fired
                          /\ ticks' = ticks)
             /\ ~fault => result' # "Err")]_vars

\* C14 witness: the readiness check of an Interval failed while an expiration
\* was waiting to be read; the expiration is still there.
C14_Witness ==
    /\ kind = "Interval" /\ initialized /\ result = "Err"
    /\ timerfd.expired /\ ticks > 0

\* C15: before the first poll the timer is as it was created, whatever resets
\* have been made; and the timer's arming is changed only by a poll that
\* finds initialized false.
C15_LazyArming ==
    /\ [](result = "None" => timerfd = TimerFd_new)
    /\ [][TimerRearmed
            => (AnyDelayPoll \/ AnyIntervalPoll) /\ ~initialized]_vars

\* C15 witness: a Delay was reset before its first poll to a deadline that is
\* still ahead, and its timer is not armed.
C15_Witness ==
    /\ kind = "Delay" /\ wasReset /\ result = "None" /\ ~dropped
    /\ deadline > now /\ now > 0
    /\ timerfd.state = "Disarmed" /\ ~initialized

\* C16: while a Delay is initialized, the last arming of its timer was a
\* one-shot made before the deadline that expires exactly at the current
\* deadline; reset leaves initialized false, and only a poll makes it true.
C16_InitializedMatchesDeadline ==
    /\ []((kind = "Delay" /\ ~dropped /\ initialized)
            => (/\ timerfd.expiry = deadline
                /\ timerfd.interval = 0
                /\ armedAt < deadline
                /\ timerfd.state \in {"Oneshot", "Disarmed"}
                /\ timerfd.state = "Disarmed" => now >= deadline))
    /\ [][AnyReset => ~initialized']_vars
    /\ [][(~initialized /\ initialized')
            => (AnyDelayPoll \/ AnyIntervalPoll)]_vars

\* C16 witness: a Delay armed again after a reset, at a later instant, for
\* the new deadline.
C16_Witness ==
    /\ kind = "Delay" /\ wasReset /\ initialized /\ ~dropped
    /\ armedAt > 0 /\ timerfd.state = "Oneshot"
    /\ timerfd.expiry = deadline /\ ~fired

\* C17: every poll that arms the timer arms it with a first expiration
\* strictly after now: a Delay as a one-shot, an Interval periodically with a
\* cadence above zero.
C17_NoZeroLengthArming ==
    [][\A fault \in BOOLEAN :
         /\ (DelayPoll(fault) /\ ~initialized /\ initialized')
              => (/\ timerfd'.state = "Oneshot"
                  /\ timerfd'.expiry - now > 0)
         /\ (IntervalPoll(fault) /\ ~initialized /\ initialized')
              => (/\ timerfd'.state = "Periodic"
                  /\ timerfd'.expiry - now > 0
                  /\ timerfd'.interval > 0)]_vars

\* C17 witness: a Delay has just been armed with the shortest duration, one
\* clock step.
C17_Witness ==
    /\ kind = "Delay" /\ initialized /\ ~dropped
    /\ timerfd.state = "Oneshot" /\ now = armedAt
    /\ timerfd.expiry = now + 1

\* C18: an Interval whose timer is armed is initialized; once initialized it
\* stays so, the instant of its arming does not change, and until it is
\* dropped its timer stays periodic with cadence `duration`, its next
\* expiration moving only by whole periods when a tick is read.
C18_IntervalArmsOnce ==
    /\ []((kind = "Interval" /\ timerfd.state # "Disarmed") => initialized)
    /\ [][(kind = "Interval" /\ initialized)
            => (/\ initialized'
                /\ armedAt' = armedAt
                /\ dropped'
                   \/ (/\ timerfd'.state = "Periodic"
                       /\ timerfd'.interval = duration
                       /\ timerfd'.expiry >= timerfd.expiry
                       /\ (timerfd'.expiry - timerfd.expiry) % duration = 0
                       /\ timerfd'.expiry # timerfd.expiry
                            => (AnyIntervalPoll /\ result' = "ReadySome")))
      ]_vars

\* C18 witness: an Interval has reported two ticks off the one arming made
\* by its first poll.
C18_Witness ==
    /\ kind = "Interval" /\ initialized /\ ~dropped
    /\ ticks >= 2 /\ timerfd.state = "Periodic"
    /\ timerfd.expiry > armedAt + 2 * duration

\* C19: after a poll of a Delay that returns not-ready, the Delay's task
\* field holds the caller's task.
C19_WaiterStored ==
    [][(AnyDelayPoll /\ result' = "NotReady") => task' # "None"]_vars

\* C20: poll leaves the deadline alone and deadline() returns the value given
\* to the most recent of new and reset; reset leaves the timer (its arming
\* and its unread expiration) and the task field alone; deadline() and
\* is_elapsed() change nothing of the Delay, its timer or its caller.
C20_DelayFrame ==
    /\ [][AnyDelayPoll => deadline' = deadline]_vars
    /\ [][Deadline => got' = given]_vars
    /\ [][AnyReset => (/\ timerfd' = timerfd
                       /\ armedAt' = armedAt
                       /\ task' = task)]_vars
    /\ [][(Deadline \/ IsElapsed)
            => UNCHANGED <<now, deadline, initialized, task, timerfd,
                           notified, dropped, result>>]_vars

\* C20 witness: after a poll armed the timer and a reset then changed the
\* deadline, deadline() returned the new deadline while the timer is still
\* armed for the old one.
C20_Witness ==
    /\ kind = "Delay" /\ wasReset /\ ~initialized /\ ~dropped
    /\ timerfd.state = "Oneshot" /\ timerfd.expiry # deadline
    /\ got = deadline /\ got > 0 /\ result = "NotReady"

====
